---- MODULE Spec2Model ----
(***************************************************************************)
(* Model of movie_rating_prediction.py: the identifier encoder             *)
(* (proc_col, encode_data, encode_new_data), the sparse matrix builder     *)
(* (df2matrix, sparse_multiply), the cost and gradient computations and    *)
(* gradient descent with momentum.                                         *)
(*                                                                         *)
(* A dataframe is a record of columns, each a sequence; its row labels     *)
(* (the pandas index) are the column "index".  Positions are 1-based in    *)
(* the model and 0-based in the code; encoded indices and row labels keep  *)
(* the code's 0-based values.                                              *)
(***************************************************************************)
EXTENDS Integers, Sequences, FiniteSets, TLC

(***************************************************************************)
(* Bounds of the model.                                                    *)
(***************************************************************************)
MaxRows == 2
MaxIter == 2
NumUsers == 2
NumMovies == 2
MaxK == 2

\* raw identifiers of the csv files: one that is also a possible encoded
\* index, one that is not
RawIds == {1, 7}

Range(s) == {s[q] : q \in 1..Len(s)}

(***************************************************************************)
(* Floating point values.  The arithmetic of the code is modelled exactly  *)
(* in the prime field Z_Modulus: a homomorphic image of the rational       *)
(* arithmetic, so every identity of the real-number computation holds in   *)
(* it and two results that differ in it differ as rationals.  NaN is the   *)
(* one value outside the field; numpy yields it for 0.0/0 and every        *)
(* operation on it yields it again.                                        *)
(***************************************************************************)
Modulus == 2^13 - 1

NaN == Modulus

Num(x) == x % Modulus

Add(a, b) == IF a = NaN \/ b = NaN THEN NaN ELSE (a + b) % Modulus

Sub(a, b) == IF a = NaN \/ b = NaN THEN NaN ELSE (a - b) % Modulus

Mul(a, b) == IF a = NaN \/ b = NaN THEN NaN ELSE (a * b) % Modulus

RECURSIVE Pow(_, _)
Pow(a, n) ==
    IF n = 0 THEN 1
    ELSE LET h == Pow(a, n \div 2)
             s == (h * h) % Modulus
         IN IF n % 2 = 1 THEN (s * a) % Modulus ELSE s

\* a / b for floats: 0.0/0 is nan (a RuntimeWarning, no exception)
Inv(b) == Pow(b % Modulus, Modulus - 2)

Div(a, b) ==
    IF a = NaN \/ b = NaN \/ b % Modulus = 0 THEN NaN ELSE Mul(a, Inv(b))

(***************************************************************************)
(* Identifier encoder.                                                     *)
(***************************************************************************)
RECURSIVE UniqueFrom(_, _, _)
UniqueFrom(col, q, acc) ==
    IF q > Len(col) THEN acc
    ELSE UniqueFrom(col, q + 1,
                    IF col[q] \in Range(acc) THEN acc ELSE Append(acc, col[q]))

RECURSIVE Ascending(_)
Ascending(S) ==
    IF S = {} THEN <<>>
    ELSE LET least == CHOOSE x \in S : \A y \in S : x <= y
         IN <<least>> \o Ascending(S \ {least})

\* mutant of Unique: np.unique(col), which sorts the distinct values
UniqueSorted(col) == Ascending(Range(col))

\* col.unique(): the distinct values in order of first appearance
Unique(col) == UniqueFrom(col, 1, <<>>)

\* {o:i for i,o in enumerate(uniq)}
Enumerate(uniq) ==
    [o \in Range(uniq) |-> (CHOOSE q \in 1..Len(uniq) : uniq[q] = o) - 1]

\* mutant of proc_col: the count is the length of the column
proc_col_len(col) ==
    LET uniq == Unique(col)
        name2idx == Enumerate(uniq)
    IN [name2idx |-> name2idx,
        encoded |-> [q \in 1..Len(col) |-> name2idx[col[q]]],
        n |-> Len(col)]

proc_col(col) ==
    LET uniq == Unique(col)
        name2idx == Enumerate(uniq)
    IN [name2idx |-> name2idx,
        encoded |-> [q \in 1..Len(col) |-> name2idx[col[q]]],
        n |-> Len(uniq)]

\* Series.map(dict): a value that is no key of the dict becomes NaN
MapCol(col, d) ==
    [q \in 1..Len(col) |-> IF col[q] \in DOMAIN d THEN d[col[q]] ELSE NaN]

\* mutant of FillNa: the unseen identifiers become index 0
FillNaZero(col, v) == [q \in 1..Len(col) |-> IF col[q] = NaN THEN 0 ELSE col[q]]

\* Series.fillna(v)
FillNa(col, v) == [q \in 1..Len(col) |-> IF col[q] = NaN THEN v ELSE col[q]]

\* the value encode_new_data writes for an identifier the map does not hold
Unseen == 0 - 1

\* col.map(name2idx).fillna(-1)
ApplyEncoding(name2idx, col) == FillNa(MapCol(col, name2idx), Unseen)

\* the encoder: the training and the validation table, what encode_data
\* returned (num_users, num_movies), the maps proc_col returned to it
\* (user2idx, movie2idx), and the tables as read, kept to state the claims
VARIABLES df_train, df_val, num_users, num_movies, user2idx, movie2idx,
          raw_train, raw_val, train_encoded, val_encoded

\* a call of cost, gradient, df2matrix or sparse_multiply: its arguments
\* (df with the column Prediction once a call has written it, the factor
\* matrices), the function called (op) and what it returned (ret)
VARIABLES df, emb_user, emb_movie, op, ret

\* gradient_descent: its further arguments and its locals; pc is its position
VARIABLES iterations, learning_rate, Y, velocity_user, velocity_movie, i, pc

encVars == <<df_train, df_val, num_users, num_movies, user2idx, movie2idx,
             raw_train, raw_val, train_encoded, val_encoded>>

calcVars == <<df, emb_user, emb_movie, op, ret>>

gdVars == <<iterations, learning_rate, Y, velocity_user, velocity_movie, i, pc>>

vars == <<encVars, calcVars, gdVars>>

\* the parts of the state a specification does not use
EncIdle ==
    /\ df_train = <<>> /\ df_val = <<>> /\ raw_train = <<>> /\ raw_val = <<>>
    /\ num_users = 0 /\ num_movies = 0 /\ user2idx = <<>> /\ movie2idx = <<>>
    /\ train_encoded = FALSE /\ val_encoded = FALSE

CalcIdle ==
    /\ df = <<>> /\ emb_user = <<>> /\ emb_movie = <<>> /\ op = "none" /\ ret = <<>>

GdIdle ==
    /\ iterations = 0 /\ learning_rate = 0 /\ Y = <<>>
    /\ velocity_user = <<>> /\ velocity_movie = <<>> /\ i = 0 /\ pc = "idle"

IdTables ==
    UNION {[userId : [1..m -> RawIds], movieId : [1..m -> RawIds]] : m \in 0..MaxRows}

EncInit ==
    /\ df_train \in IdTables
    /\ df_val \in IdTables
    /\ raw_train = df_train
    /\ raw_val = df_val
    /\ num_users = 0
    /\ num_movies = 0
    /\ user2idx = <<>>
    /\ movie2idx = <<>>
    /\ train_encoded = FALSE
    /\ val_encoded = FALSE
    /\ CalcIdle
    /\ GdIdle

encode_data ==
    /\ ~train_encoded
    /\ LET u == proc_col(df_train.userId)
           m == proc_col(df_train.movieId)
       IN /\ df_train' = [userId |-> u.encoded, movieId |-> m.encoded]
          /\ user2idx' = u.name2idx
          /\ movie2idx' = m.name2idx
          /\ num_users' = u.n
          /\ num_movies' = m.n
    /\ train_encoded' = TRUE
    /\ UNCHANGED <<df_val, raw_train, raw_val, val_encoded, calcVars, gdVars>>

encode_new_data ==
    /\ ~val_encoded
    /\ LET u == proc_col(df_train.userId)
           m == proc_col(df_train.movieId)
       IN df_val' = [userId |-> ApplyEncoding(u.name2idx, df_val.userId),
                     movieId |-> ApplyEncoding(m.name2idx, df_val.movieId)]
    /\ val_encoded' = TRUE
    /\ UNCHANGED <<df_train, num_users, num_movies, user2idx, movie2idx,
                   raw_train, raw_val, train_encoded, calcVars, gdVars>>

EncNext == encode_data \/ encode_new_data

SpecEnc == EncInit /\ [][EncNext]_vars

(***************************************************************************)
(* Claims about the encoder, checked under SpecEnc.                        *)
(***************************************************************************)
FirstPos(col, x) == CHOOSE q \in 1..Len(col) : col[q] = x /\ \A j \in 1..(q - 1) : col[j] # x

\* every raw identifier of vcol that occurs in tcol has, in venc, the index
\* that tenc holds for it
SameEncoding(vcol, venc, tcol, tenc) ==
    \A q \in 1..Len(vcol) : \A j \in 1..Len(tcol) :
        vcol[q] = tcol[j] => venc[q] = tenc[j]

\* C3: once the training table is encoded by encode_data and the validation
\* table by encode_new_data, in either order, every validation identifier
\* that occurs in the raw training column has the index encode_data gave it.
C3_SameEncodingAsTrain ==
    (train_encoded /\ val_encoded) =>
        /\ SameEncoding(raw_val.userId, df_val.userId, raw_train.userId, df_train.userId)
        /\ SameEncoding(raw_val.movieId, df_val.movieId, raw_train.movieId, df_train.movieId)

\* what C4 says of one column: col is the column before the call, enc the
\* column after it, ref the map of the training column
EncodedBy(ref, col, enc) ==
    /\ Len(enc) = Len(col)
    /\ \A q \in 1..Len(col) :
          enc[q] = IF col[q] \in DOMAIN ref THEN ref[col[q]] ELSE 0 - 1

\* the lookups of encode_new_data are defined on every row: each gives an
\* index or -1, none is left without a value
LookupsDefined(tcol, vcol) ==
    LET enc == ApplyEncoding(proc_col(tcol).name2idx, vcol)
    IN /\ DOMAIN enc = 1..Len(vcol)
       /\ \A q \in 1..Len(vcol) : enc[q] \in Int /\ enc[q] # NaN

CanEncodeNewData(train, val) ==
    /\ LookupsDefined(train.userId, val.userId)
    /\ LookupsDefined(train.movieId, val.movieId)

\* C4: encode_new_data never raises (before and after every step its lookups
\* are defined for the tables at hand); it writes -1 at every position whose
\* identifier the reference map does not hold and the map's index at every
\* other position, and leaves the training column and its map unchanged.
C4_UnseenIsMinusOne ==
    [][/\ ~val_encoded => CanEncodeNewData(df_train, df_val)
       /\ ~val_encoded' => CanEncodeNewData(df_train', df_val')
       /\ (~val_encoded /\ val_encoded') =>
            /\ EncodedBy(proc_col(df_train.userId).name2idx, df_val.userId, df_val'.userId)
            /\ EncodedBy(proc_col(df_train.movieId).name2idx, df_val.movieId, df_val'.movieId)
            /\ df_train' = df_train
            /\ proc_col(df_train'.userId).name2idx = proc_col(df_train.userId).name2idx
            /\ proc_col(df_train'.movieId).name2idx = proc_col(df_train.movieId).name2idx
      ]_vars

\* a validation column holding both a known and an unseen identifier
C4_Witness ==
    /\ val_encoded
    /\ \E q, j \in 1..Len(df_val.userId) :
          df_val.userId[q] = 0 - 1 /\ df_val.userId[j] >= 0

\* C5: the count proc_col returns is the number of distinct values of the
\* column, and its map applied back to the column gives the encoded column.
C5_RoundTrip ==
    train_encoded =>
        /\ num_users = Cardinality(Range(raw_train.userId))
        /\ num_movies = Cardinality(Range(raw_train.movieId))
        /\ ApplyEncoding(user2idx, raw_train.userId) = df_train.userId
        /\ ApplyEncoding(movie2idx, raw_train.movieId) = df_train.movieId
        /\ \A q \in 1..Len(df_train.userId) : df_train.userId[q] # 0 - 1
        /\ \A q \in 1..Len(df_train.movieId) : df_train.movieId[q] # 0 - 1

\* an encoded training column with a repeated identifier
C5_Witness ==
    /\ train_encoded
    /\ Len(raw_train.userId) > Cardinality(Range(raw_train.userId))
    /\ Cardinality(Range(raw_train.movieId)) > 1

\* name2idx is a bijection from the distinct identifiers of col onto 0..n-1,
\* in order of first appearance, and enc lies in 0..n-1
FirstAppearanceBijection(name2idx, col, enc, n) ==
    /\ DOMAIN name2idx = Range(col)
    /\ {name2idx[x] : x \in Range(col)} = 0..(n - 1)
    /\ \A x, y \in Range(col) : name2idx[x] = name2idx[y] => x = y
    /\ \A x \in Range(col) :
          name2idx[x] = Cardinality({y \in Range(col) : FirstPos(col, y) < FirstPos(col, x)})
    /\ \A q \in 1..Len(enc) : enc[q] \in 0..(n - 1)

\* C6: the map of proc_col is a bijection onto [0, n) that numbers the
\* identifiers in order of first appearance; every encoded value is in [0, n).
C6_Bijection ==
    train_encoded =>
        /\ FirstAppearanceBijection(user2idx, raw_train.userId, df_train.userId, num_users)
        /\ FirstAppearanceBijection(movie2idx, raw_train.movieId, df_train.movieId, num_movies)

\* a training column whose identifiers first appear in descending order
C6_Witness ==
    /\ train_encoded
    /\ \E q, j \in 1..Len(raw_train.userId) :
          q < j /\ raw_train.userId[q] > raw_train.userId[j]

(***************************************************************************)
(* Numeric part: factor matrices, predictions, cost, gradient, the sparse  *)
(* matrix builder.  A factor matrix is a function from the row indices     *)
(* 0..n-1 to rows, each a sequence of K values.  A function of the code    *)
(* returns a record whose field raised names the exception it raised, or   *)
(* is "none".                                                              *)
(***************************************************************************)
Shape0(emb) == Cardinality(DOMAIN emb)

Shape1(emb) == IF DOMAIN emb = {} THEN 0 ELSE Len(emb[CHOOSE r \in DOMAIN emb : TRUE])

\* numpy accepts the indices -n..n-1 of an axis of length n
IndexOk(emb, q) == q >= 0 - Shape0(emb) /\ q < Shape0(emb)

\* emb[i]: a negative index counts from the end
At(emb, q) == emb[IF q < 0 THEN q + Shape0(emb) ELSE q]

Zeros(K) == [k \in 1..K |-> 0]

zeros_like(emb) == [r \in DOMAIN emb |-> Zeros(Shape1(emb))]

VecAdd(a, b) == [k \in 1..Len(a) |-> Add(a[k], b[k])]

VecScale(c, v) == [k \in 1..Len(v) |-> Mul(c, v[k])]

RECURSIVE SumFrom(_, _)
SumFrom(v, k) == IF k > Len(v) THEN 0 ELSE Add(v[k], SumFrom(v, k + 1))

\* np.sum(a * b) of two rows
Dot(a, b) == SumFrom([k \in 1..Len(a) |-> Mul(a[k], b[k])], 1)

\* emb[column.values] raises IndexError for a float column and for an index
\* outside -n..n-1
CanTake(emb, col, dtype) ==
    dtype = "int64" /\ \A q \in 1..Len(col) : IndexOk(emb, col[q])

CanPredict(tbl, eu, em) ==
    /\ CanTake(eu, tbl.userId, tbl.userId_dtype)
    /\ CanTake(em, tbl.movieId, tbl.movieId_dtype)

\* np.sum(emb_user[df['userId'].values] * emb_movie[df['movieId'].values], axis=1)
Predictions(tbl, eu, em) ==
    [q \in 1..Len(tbl.userId) |->
        Dot(At(eu, tbl.userId[q]), At(em, tbl.movieId[q]))]

\* csc_matrix((values, (ind_user, ind_movie)), shape=(nrows, ncols)): the
\* entries of one coordinate are summed; an index outside the shape raises
RECURSIVE CoordSum(_, _, _, _, _, _)
CoordSum(values, ind_user, ind_movie, r, c, q) ==
    IF q > Len(values) THEN 0
    ELSE Add(IF ind_user[q] = r /\ ind_movie[q] = c THEN values[q] ELSE 0,
             CoordSum(values, ind_user, ind_movie, r, c, q + 1))

RECURSIVE CoordLast(_, _, _, _, _, _)
CoordLast(values, ind_user, ind_movie, r, c, q) ==
    IF q < 1 THEN 0
    ELSE IF ind_user[q] = r /\ ind_movie[q] = c THEN values[q]
    ELSE CoordLast(values, ind_user, ind_movie, r, c, q - 1)

\* mutant of csc_matrix: a later entry of a coordinate overwrites the earlier
csc_matrix_overwrite(values, ind_user, ind_movie, nrows, ncols) ==
    IF \E q \in 1..Len(values) :
          \/ ind_user[q] < 0 \/ ind_user[q] >= nrows
          \/ ind_movie[q] < 0 \/ ind_movie[q] >= ncols
    THEN [raised |-> "ValueError"]
    ELSE [raised |-> "none",
          matrix |-> [rc \in (0..(nrows - 1)) \X (0..(ncols - 1)) |->
                         CoordLast(values, ind_user, ind_movie, rc[1], rc[2], Len(values))]]

csc_matrix(values, ind_user, ind_movie, nrows, ncols) ==
    IF \E q \in 1..Len(values) :
          \/ ind_user[q] < 0 \/ ind_user[q] >= nrows
          \/ ind_movie[q] < 0 \/ ind_movie[q] >= ncols
    THEN [raised |-> "ValueError"]
    ELSE [raised |-> "none",
          matrix |-> [rc \in (0..(nrows - 1)) \X (0..(ncols - 1)) |->
                         CoordSum(values, ind_user, ind_movie, rc[1], rc[2], 1)]]

df2matrix(tbl, nrows, ncols, column_name) ==
    csc_matrix(tbl[column_name], tbl.userId, tbl.movieId, nrows, ncols)

\* the mean of an empty column is nan
Mean(v) == Div(SumFrom(v, 1), Len(v))

\* df[idx] of a Series with integer row labels: the row labelled idx
HasLabel(tbl, idx) == \E p \in 1..Len(tbl.index) : tbl.index[p] = idx

Loc(tbl, idx) == CHOOSE p \in 1..Len(tbl.index) : tbl.index[p] = idx

\* the loop of gradient, from idx on
RECURSIVE GradLoop(_, _, _, _, _, _, _)
GradLoop(tbl, diff, eu, em, idx, grad_user, grad_movie) ==
    IF idx >= Len(tbl.userId)
    THEN [raised |-> "none", grad_user |-> grad_user, grad_movie |-> grad_movie]
    ELSE IF ~HasLabel(tbl, idx) THEN [raised |-> "KeyError"]
    ELSE LET u == tbl.userId[idx + 1]
             m == tbl.movieId[idx + 1]
             d == Mul(Num(0 - 2), diff[Loc(tbl, idx)])
             ur == IF u < 0 THEN u + Shape0(eu) ELSE u
             mr == IF m < 0 THEN m + Shape0(em) ELSE m
         IN GradLoop(tbl, diff, eu, em, idx + 1,
                     [grad_user EXCEPT ![ur] = VecAdd(@, VecScale(d, At(em, m)))],
                     [grad_movie EXCEPT ![mr] = VecAdd(@, VecScale(d, At(eu, u)))])

\* grad /= len(df)
MatDiv(grad, n) ==
    LET inv == Inv(n)
    IN [r \in DOMAIN grad |->
          [k \in 1..Len(grad[r]) |-> IF n = 0 THEN NaN ELSE Mul(grad[r][k], inv)]]

gradient(tbl, Ysp, eu, em) ==
    IF ~CanPredict(tbl, eu, em) THEN [raised |-> "IndexError"]
    ELSE LET predictions == Predictions(tbl, eu, em)
             diff == [p \in 1..Len(tbl.rating) |-> Sub(tbl.rating[p], predictions[p])]
             loop == GradLoop(tbl, diff, eu, em, 0,
                              zeros_like(eu), zeros_like(em))
         IN IF loop.raised # "none" THEN loop
            ELSE [raised |-> "none",
                  grad_user |-> MatDiv(loop.grad_user, Len(tbl.userId)),
                  grad_movie |-> MatDiv(loop.grad_movie, Len(tbl.userId))]

\* ratings of the table
Ratings == {1, 4}

\* the row labels of a table of m rows: those of a table as read (0..m-1),
\* of the table reversed, and of the table that lost its first row
Labelings(m) ==
    {[p \in 1..m |-> p - 1], [p \in 1..m |-> m - p], [p \in 1..m |-> p]}

RangeIndex(m) == {[p \in 1..m |-> p - 1]}

\* tables of integer identifier columns with values in U and in M
Tables(U, M, L(_), R) ==
    UNION {{[index |-> ix, userId |-> u, movieId |-> m, rating |-> r,
             userId_dtype |-> "int64", movieId_dtype |-> "int64", Prediction |-> <<>>] :
              ix \in L(n), u \in [1..n -> U], m \in [1..n -> M], r \in [1..n -> R]}
           : n \in 0..MaxRows}

\* a column that holds -1 is an integer column or the float column that
\* fillna(-1) leaves
DTypes(col) ==
    IF \E p \in 1..Len(col) : col[p] = 0 - 1 THEN {"int64", "float64"} ELSE {"int64"}

WithDTypes(t) ==
    {[t EXCEPT !.userId_dtype = ud, !.movieId_dtype = md] :
        ud \in DTypes(t.userId), md \in DTypes(t.movieId)}

\* factor matrices of n rows and K columns with entries in 1..3
EmbInput(n, K, seed) == [r \in 0..(n - 1) |-> [k \in 1..K |-> 1 + ((seed + 2 * r + k) % 3)]]

Seeds == {0, 1}

cost ==
    /\ op = "none"
    /\ op' = "cost"
    /\ IF ~CanPredict(df, emb_user, emb_movie)
       THEN /\ ret' = [raised |-> "IndexError"]
            /\ df' = df
       ELSE LET predictions == Predictions(df, emb_user, emb_movie)
                sq == [p \in 1..Len(df.rating) |->
                         LET e == Sub(df.rating[p], predictions[p]) IN Mul(e, e)]
            IN /\ df' = [df EXCEPT !.Prediction = predictions]
               /\ ret' = [raised |-> "none", error |-> Mean(sq)]
    /\ UNCHANGED <<emb_user, emb_movie, encVars, gdVars>>

gradient_call ==
    /\ op = "none"
    /\ op' = "gradient"
    /\ ret' = gradient(df, <<>>, emb_user, emb_movie)
    /\ UNCHANGED <<df, emb_user, emb_movie, encVars, gdVars>>

df2matrix_call ==
    /\ op = "none"
    /\ op' = "df2matrix"
    /\ ret' = df2matrix(df, Shape0(emb_user), Shape0(emb_movie), "rating")
    /\ UNCHANGED <<df, emb_user, emb_movie, encVars, gdVars>>

sparse_multiply ==
    /\ op = "none"
    /\ op' = "sparse_multiply"
    /\ IF ~CanPredict(df, emb_user, emb_movie)
       THEN /\ ret' = [raised |-> "IndexError"]
            /\ df' = df
       ELSE /\ df' = [df EXCEPT !.Prediction = Predictions(df, emb_user, emb_movie)]
            /\ ret' = df2matrix(df', Shape0(emb_user), Shape0(emb_movie), "Prediction")
    /\ UNCHANGED <<emb_user, emb_movie, encVars, gdVars>>

\* calls with any index column: indices -1..n, any row labels
CalcInit ==
    /\ \E t \in Tables((0 - 1)..NumUsers, (0 - 1)..NumMovies, Labelings, Ratings) :
          df \in WithDTypes(t)
    /\ \E K \in 1..MaxK, seed \in Seeds :
          /\ emb_user = EmbInput(NumUsers, K, seed)
          /\ emb_movie = EmbInput(NumMovies, K, seed + 1)
    /\ op = "none"
    /\ ret = <<>>
    /\ EncIdle
    /\ GdIdle

CalcNext == cost \/ gradient_call \/ sparse_multiply

SpecCalc == CalcInit /\ [][CalcNext]_vars

\* the matrix builder: tables with indices 0..n-1 and row labels 0..m-1; the
\* shape is that of the factor matrices, which may have one row less than
\* the table has users (movies)
MatInit ==
    /\ df \in Tables(0..(NumUsers - 1), 0..(NumMovies - 1), RangeIndex, Ratings)
    /\ \E nu \in {NumUsers - 1, NumUsers}, nm \in {NumMovies - 1, NumMovies} :
          /\ emb_user = EmbInput(nu, 1, 0)
          /\ emb_movie = EmbInput(nm, 1, 1)
    /\ op = "none"
    /\ ret = <<>>
    /\ EncIdle
    /\ GdIdle

MatNext == df2matrix_call \/ sparse_multiply

SpecMat == MatInit /\ [][MatNext]_vars

(***************************************************************************)
(* gradient_descent.                                                       *)
(***************************************************************************)
\* momentum = 0.9
Momentum == Div(9, 10)

\* a * A + b * B, entry by entry
MatCombine(a, A, b, B) ==
    [r \in DOMAIN A |-> [k \in 1..Len(A[r]) |-> Add(Mul(a, A[r][k]), Mul(b, B[r][k]))]]

\* mutant of Iteration: the movie gradient is computed after the user matrix
\* is updated
IterationAlternating(tbl, Ysp, eu, em, vu, vm, lr) ==
    LET g == gradient(tbl, Ysp, eu, em)
    IN IF g.raised # "none" THEN [raised |-> g.raised]
       ELSE LET vu1 == MatCombine(Momentum, vu, Sub(1, Momentum), g.grad_user)
                eu1 == MatCombine(1, eu, Num(0 - lr), vu1)
                g2 == gradient(tbl, Ysp, eu1, em)
                vm1 == MatCombine(Momentum, vm, Sub(1, Momentum), g2.grad_movie)
            IN [raised |-> "none",
                velocity_user |-> vu1,
                velocity_movie |-> vm1,
                emb_user |-> eu1,
                emb_movie |-> MatCombine(1, em, Num(0 - lr), vm1)]

\* the body of the loop: the state after one iteration that starts with the
\* factor matrices eu, em and the velocities vu, vm
Iteration(tbl, Ysp, eu, em, vu, vm, lr) ==
    LET g == gradient(tbl, Ysp, eu, em)
    IN IF g.raised # "none" THEN [raised |-> g.raised]
       ELSE LET vu1 == MatCombine(Momentum, vu, Sub(1, Momentum), g.grad_user)
                vm1 == MatCombine(Momentum, vm, Sub(1, Momentum), g.grad_movie)
            IN [raised |-> "none",
                velocity_user |-> vu1,
                velocity_movie |-> vm1,
                emb_user |-> MatCombine(1, eu, Num(0 - lr), vu1),
                emb_movie |-> MatCombine(1, em, Num(0 - lr), vm1)]

\* Y = df2matrix(...), the velocities and momentum
gradient_descent_enter ==
    /\ pc = "start"
    /\ LET y == df2matrix(df, Shape0(emb_user), Shape0(emb_movie), "rating")
       IN IF y.raised # "none"
          THEN /\ pc' = "raised"
               /\ ret' = y
               /\ UNCHANGED <<Y, velocity_user, velocity_movie>>
          ELSE /\ Y' = y.matrix
               /\ velocity_user' = zeros_like(emb_user)
               /\ velocity_movie' = zeros_like(emb_movie)
               /\ pc' = "loop"
               /\ ret' = ret
    /\ UNCHANGED <<df, emb_user, emb_movie, op, iterations, learning_rate, i, encVars>>

\* one pass of: for i in range(iterations)
gradient_descent_iterate ==
    /\ pc = "loop"
    /\ i < iterations
    /\ LET s == Iteration(df, Y, emb_user, emb_movie, velocity_user, velocity_movie,
                          learning_rate)
       IN IF s.raised # "none"
          THEN /\ pc' = "raised"
               /\ ret' = s
               /\ UNCHANGED <<emb_user, emb_movie, velocity_user, velocity_movie, i>>
          ELSE /\ velocity_user' = s.velocity_user
               /\ velocity_movie' = s.velocity_movie
               /\ emb_user' = s.emb_user
               /\ emb_movie' = s.emb_movie
               /\ i' = i + 1
               /\ UNCHANGED <<pc, ret>>
    /\ UNCHANGED <<df, op, iterations, learning_rate, Y, encVars>>

\* return emb_user, emb_movie
gradient_descent_return ==
    /\ pc = "loop"
    /\ i >= iterations
    /\ pc' = "returned"
    /\ ret' = [raised |-> "none", emb_user |-> emb_user, emb_movie |-> emb_movie]
    /\ UNCHANGED <<df, emb_user, emb_movie, op, iterations, learning_rate, Y,
                   velocity_user, velocity_movie, i, encVars>>

\* learning_rate=0.01, the default
LearningRates == {Div(1, 100)}

\* the ratings of the training tables
GdRatings == {4}

\* calls of gradient_descent on tables with the indices of the factor
\* matrices, the empty table among them
GdInit ==
    /\ df \in Tables(0..(NumUsers - 1), 0..(NumMovies - 1), Labelings, GdRatings)
    /\ \E K \in 1..MaxK :
          /\ emb_user = EmbInput(NumUsers, K, 0)
          /\ emb_movie = EmbInput(NumMovies, K, 1)
    /\ iterations \in 0..MaxIter
    /\ learning_rate \in LearningRates
    /\ op = "gradient_descent"
    /\ ret = <<>>
    /\ Y = <<>>
    /\ velocity_user = <<>>
    /\ velocity_movie = <<>>
    /\ i = 0
    /\ pc = "start"
    /\ EncIdle

GdNext == gradient_descent_enter \/ gradient_descent_iterate \/ gradient_descent_return

SpecGD == GdInit /\ [][GdNext]_vars

(***************************************************************************)
(* Claims about gradient and cost, checked under SpecCalc.                 *)
(***************************************************************************)
\* a non-empty table of integer indices that are rows of the factor matrices
ValidTable(tbl, eu, em) ==
    /\ Len(tbl.userId) > 0
    /\ tbl.userId_dtype = "int64" /\ tbl.movieId_dtype = "int64"
    /\ \A p \in 1..Len(tbl.userId) :
          tbl.userId[p] \in DOMAIN eu /\ tbl.movieId[p] \in DOMAIN em

\* -2 * (rating_p - predict_p) of observation p
Residual(tbl, eu, em, p) ==
    Mul(Num(0 - 2), Sub(tbl.rating[p], Dot(eu[tbl.userId[p]], em[tbl.movieId[p]])))

\* the sum over the observations of user u, divided by the number of
\* observations
MeanGradUser(tbl, eu, em, u) ==
    [k \in 1..Shape1(eu) |->
        Div(SumFrom([p \in 1..Len(tbl.userId) |->
                        IF tbl.userId[p] = u
                        THEN Mul(Residual(tbl, eu, em, p), em[tbl.movieId[p]][k])
                        ELSE 0], 1),
            Len(tbl.userId))]

MeanGradMovie(tbl, eu, em, m) ==
    [k \in 1..Shape1(em) |->
        Div(SumFrom([p \in 1..Len(tbl.userId) |->
                        IF tbl.movieId[p] = m
                        THEN Mul(Residual(tbl, eu, em, p), eu[tbl.userId[p]][k])
                        ELSE 0], 1),
            Len(tbl.userId))]

\* C1: for every non-empty table with valid indices gradient returns, for
\* each user (item), the sum of the contributions of the observations of
\* that user (item) divided by the number of observations; the row of an
\* entity without observation is zero.
C1_GradientIsMeanOfSums ==
    (op = "gradient" /\ ValidTable(df, emb_user, emb_movie)) =>
        /\ ret.raised = "none"
        /\ \A u \in DOMAIN emb_user :
              ret.grad_user[u] = MeanGradUser(df, emb_user, emb_movie, u)
        /\ \A m \in DOMAIN emb_movie :
              ret.grad_movie[m] = MeanGradMovie(df, emb_user, emb_movie, m)

\* an index that is no row of the factor matrix
InvalidIndex(emb, x) == x < 0 \/ x >= Shape0(emb)

HasInvalidIndex(tbl, eu, em) ==
    \E p \in 1..Len(tbl.userId) :
        InvalidIndex(eu, tbl.userId[p]) \/ InvalidIndex(em, tbl.movieId[p])

\* C7: cost and gradient called with an index that is no row of its factor
\* matrix (negative, the -1 of encode_new_data included, or >= the entity
\* count) fail with an error.
C7_InvalidIndexFails ==
    (op \in {"cost", "gradient"} /\ HasInvalidIndex(df, emb_user, emb_movie)) =>
        ret.raised # "none"

(***************************************************************************)
(* Claims about df2matrix, checked under SpecMat.                          *)
(***************************************************************************)
\* the column df2matrix read
ValuesOf(tbl, o) == IF o = "df2matrix" THEN tbl.rating ELSE tbl.Prediction

Occurrences(tbl, r, c) ==
    {p \in 1..Len(tbl.userId) : tbl.userId[p] = r /\ tbl.movieId[p] = c}

Max(S) == CHOOSE x \in S : \A y \in S : y <= x

RECURSIVE SumOver(_, _)
SumOver(v, S) ==
    IF S = {} THEN 0 ELSE LET p == Max(S) IN Add(SumOver(v, S \ {p}), v[p])

Returned(o) == op = o /\ ret.raised = "none"

\* C9 as stated: every entry of the matrix df2matrix returns holds the value
\* of the last triple of its coordinate, and zero if there is none.
C9_LastWriteWins ==
    Returned("df2matrix") =>
        \A rc \in DOMAIN ret.matrix :
            LET occ == Occurrences(df, rc[1], rc[2])
            IN ret.matrix[rc] = IF occ = {} THEN 0 ELSE df.rating[Max(occ)]

\* C9 amended: every entry of the matrix holds the sum of the values of all
\* triples of its coordinate: the value of the triple if there is one, zero
\* if there is none.
C9_DuplicatesAreSummed ==
    (Returned("df2matrix") \/ Returned("sparse_multiply")) =>
        \A rc \in DOMAIN ret.matrix :
            LET occ == Occurrences(df, rc[1], rc[2])
            IN /\ ret.matrix[rc] = SumOver(ValuesOf(df, op), occ)
               /\ Cardinality(occ) = 1 => ret.matrix[rc] = ValuesOf(df, op)[Max(occ)]
               /\ occ = {} => ret.matrix[rc] = 0

\* a matrix built from a table that holds one coordinate twice, with
\* different values
C9_Witness ==
    /\ Returned("df2matrix")
    /\ \E p1, p2 \in 1..Len(df.userId) :
          /\ p1 < p2
          /\ df.userId[p1] = df.userId[p2]
          /\ df.movieId[p1] = df.movieId[p2]
          /\ df.rating[p1] # df.rating[p2]

(***************************************************************************)
(* Claims about gradient_descent, checked under SpecGD.                    *)
(***************************************************************************)
NineTenths == Div(9, 10)

OneTenth == Div(1, 10)

\* 0.9 * velocity + 0.1 * grad
MovingAverage(velocity, grad) ==
    [r \in DOMAIN velocity |->
        [k \in 1..Len(velocity[r]) |->
            Add(Mul(NineTenths, velocity[r][k]), Mul(OneTenth, grad[r][k]))]]

\* emb - lr * velocity
Descend(emb, lr, velocity) ==
    [r \in DOMAIN emb |->
        [k \in 1..Len(emb[r]) |-> Sub(emb[r][k], Mul(lr, velocity[r][k]))]]

\* C2: each iteration computes both gradients from the factor matrices as
\* they are before the iteration, then sets velocity' = 0.9 * velocity +
\* 0.1 * gradient and emb' = emb - learning_rate * velocity' on both sides;
\* neither matrix changes before both gradients are computed.
C2_SynchronousMomentumUpdate ==
    [][/\ (pc = "loop" /\ i' # i) =>
            LET g == gradient(df, Y, emb_user, emb_movie)
            IN /\ g.raised = "none"
               /\ i' = i + 1
               /\ velocity_user' = MovingAverage(velocity_user, g.grad_user)
               /\ velocity_movie' = MovingAverage(velocity_movie, g.grad_movie)
               /\ emb_user' = Descend(emb_user, learning_rate, velocity_user')
               /\ emb_movie' = Descend(emb_movie, learning_rate, velocity_movie')
       /\ (pc = "loop" /\ i' = i) =>
            <<emb_user, emb_movie, velocity_user, velocity_movie>>' =
                <<emb_user, emb_movie, velocity_user, velocity_movie>>
      ]_vars

\* the second iteration is done, on velocities that were not zero
C2_Witness ==
    /\ pc = "loop"
    /\ i = 2
    /\ Len(df.rating) > 1
    /\ \E r \in DOMAIN velocity_user : \E k \in 1..Len(velocity_user[r]) :
          velocity_user[r][k] # 0 /\ velocity_user[r][k] # NaN
    /\ \E r \in DOMAIN velocity_movie : \E k \in 1..Len(velocity_movie[r]) :
          velocity_movie[r][k] # 0 /\ velocity_movie[r][k] # NaN

HasNaN(emb) == \E r \in DOMAIN emb : \E k \in 1..Len(emb[r]) : emb[r][k] = NaN

\* C8: called with an empty training table gradient_descent refuses to run:
\* it reports an error and updates neither factor matrix.
C8_EmptyTableRefused ==
    (Len(df.rating) = 0 /\ pc # "start") =>
        /\ pc = "raised"
        /\ ~HasNaN(emb_user)
        /\ ~HasNaN(emb_movie)

\* C10: on every non-empty valid training table gradient_descent starts
\* with zero velocities, performs exactly `iterations` update steps (none
\* for iterations = 0, which leaves the factor matrices as given), then
\* returns the two factor matrices and nothing else.
C10_ExactlyIterationsSteps ==
    ValidTable(df, emb_user, emb_movie) =>
        /\ pc # "raised"
        /\ i <= iterations
        /\ (pc = "loop" /\ i = 0) =>
              /\ velocity_user = zeros_like(emb_user)
              /\ velocity_movie = zeros_like(emb_movie)
        /\ pc = "returned" =>
              /\ i = iterations
              /\ ret = [raised |-> "none", emb_user |-> emb_user, emb_movie |-> emb_movie]
        /\ (pc = "returned" /\ iterations = 0) =>
              /\ emb_user = EmbInput(NumUsers, Shape1(emb_user), 0)
              /\ emb_movie = EmbInput(NumMovies, Shape1(emb_movie), 1)

====
